---- MODULE Spec2Model ----
(***************************************************************************)
(* State-machine model of the DataImport popup (dataimport/DataImportPopup *)
(* .py) and of the host application that opens it (main.py).               *)
(*                                                                         *)
(* Python values are tagged records: None is [type |-> "NoneType"], a str  *)
(* is [type |-> "str", value |-> ...], a pandas DataFrame is               *)
(* [type |-> "DataFrame", columns |-> ..., values |-> ...].  File paths    *)
(* and the text of the skip-rows entry are sequences of one-character      *)
(* strings, so that endswith, the file-name regular expression and the     *)
(* Tcl integer conversion are computed character by character.             *)
(***************************************************************************)
EXTENDS Integers, Sequences, FiniteSets, TLC

VARIABLES
    popup,      \* the DataImportPopup object (self) of the current flow
    pc,         \* position of DataImportApp.open_import_window
    tableview,  \* DataImportApp.tableview: the host's displayed table
    ret,        \* the value import_data last returned to open_import_window
    host_exc,   \* exception that escaped the last open_import_window
    event,      \* the widget callback that ran most recently
    io,         \* external calls made by that callback, and what escaped it
    parsed,     \* the table a parser last returned to the current popup
    popup2,     \* the DataImportPopup of a second flow, opened while the
                \* first one is waiting
    ret2,       \* the value import_data returned for the second flow
    widget,     \* the popup whose widget ran the callback (0: the host's)
    hist        \* history of the preview: what was displayed at the last
                \* switch-off of "show preview", and one earlier refresh

vars == <<popup, pc, tableview, ret, host_exc, event, io, parsed,
          popup2, ret2, widget, hist>>

\* what a specification of one flow without history leaves alone
others == <<popup2, ret2, widget, hist>>

-----------------------------------------------------------------------------
(* Bounds of the model *)

\* number of option frames one popup may create (each recognised selection
\* creates one)
MaxFrames == 2

-----------------------------------------------------------------------------
(* Python values *)

PyNone == [type |-> "NoneType"]
Unset == [type |-> "unset"]          \* an attribute that was never assigned
Str(v) == [type |-> "str", value |-> v]
DataFrame(cols, vals) == [type |-> "DataFrame", columns |-> cols, values |-> vals]
Raised(name) == [type |-> "exception", name |-> name]
IsRaised(v) == v.type = "exception"

EmptyStr == << >>

\* str.endswith
endswith(s, suffix) ==
    /\ Len(s) >= Len(suffix)
    /\ SubSeq(s, Len(s) - Len(suffix) + 1, Len(s)) = suffix

DotCsv == <<".", "c", "s", "v">>
DotXlsx == <<".", "x", "l", "s", "x">>
DotSav == <<".", "s", "a", "v">>

-----------------------------------------------------------------------------
(* The environment: files the picker can return and what the parsers can   *)
(* produce for them                                                        *)

SalesCsv == <<"/", "t", "/", "s", "_", "Q", "1", ".", "c", "s", "v">>
OtherCsv == <<"/", "t", "/", "o", ".", "c", "s", "v">>
BookXlsx == <<"/", "t", "/", "b", ".", "x", "l", "s", "x">>
SurveySav == <<"/", "t", "/", "v", ".", "s", "a", "v">>
NotesTxt == <<"/", "t", "/", "n", ".", "t", "x", "t">>
DottedDirSav == <<"/", "a", ".", "b", "/", "f", ".", "s", "a", "v">>
PlusCsv == <<"/", "t", "/", "+", ".", "c", "s", "v">>

\* what filedialog.askopenfilename can return; EmptyStr is a cancelled picker
PickerResults ==
    {EmptyStr, SalesCsv, OtherCsv, BookXlsx, SurveySav, NotesTxt, DottedDirSav, PlusCsv}

\* The tables a parser can produce for a path.  The content of a file (and
\* so the table) can differ between two parses; tables of different files
\* differ.
ParsedTables(path) ==
    IF path = SalesCsv THEN
        {DataFrame(<<"a", "b">>, << <<1, 2>> >>),
         DataFrame(<<"a;b">>, << <<12>> >>)}
    ELSE IF path = OtherCsv THEN
        {DataFrame(<<"o">>, << <<7>> >>)}
    ELSE IF path = BookXlsx THEN
        {DataFrame(<<"x", "y">>, << <<3, 4>>, <<5, 6>> >>),
         DataFrame(<<"x">>, << <<5>> >>)}
    ELSE IF path = SurveySav THEN
        {DataFrame(<<"q">>, << <<9>> >>)}
    ELSE IF path = DottedDirSav THEN
        {DataFrame(<<"f">>, << <<8>> >>)}
    ELSE IF path = PlusCsv THEN
        {DataFrame(<<"p">>, << <<6>> >>)}
    ELSE {}

ParseError == Raised("ParserError")

\* outcome of pd.read_csv / pd.read_excel / pd.read_spss on a path
ParseOutcomes(path) == ParsedTables(path) \cup {ParseError}

\* outcome of pd.ExcelFile(path).sheet_names
List(items) == [type |-> "list", items |-> items]
SheetNameOutcomes(path) ==
    IF endswith(path, DotXlsx)
    THEN {List(<<"S1", "S2">>), List(<< >>), Raised("ValueError")}
    ELSE {List(<< >>)}      \* not called

\* texts a user can leave in the widgets
SeparatorTexts == {",", ";", "|"}
MissingValueTexts == {"Default", "-999"}
SkipRowsTexts == {<<"0">>, <<"-", "1">>, <<"a", "b", "c">>, <<"1", ".", "5">>}

-----------------------------------------------------------------------------
(* Tk variables *)

Digits == {"0", "1", "2", "3", "4", "5", "6", "7", "8", "9"}

DigitValue(c) ==
    CASE c = "0" -> 0 [] c = "1" -> 1 [] c = "2" -> 2 [] c = "3" -> 3
      [] c = "4" -> 4 [] c = "5" -> 5 [] c = "6" -> 6 [] c = "7" -> 7
      [] c = "8" -> 8 [] c = "9" -> 9

IsDigits(s) == Len(s) >= 1 /\ \A i \in 1..Len(s) : s[i] \in Digits

RECURSIVE NatOf(_)
NatOf(s) ==
    IF s = << >> THEN 0
    ELSE 10 * NatOf(SubSeq(s, 1, Len(s) - 1)) + DigitValue(s[Len(s)])

\* a decimal integer literal with an optional sign
IsIntText(s) ==
    \/ IsDigits(s)
    \/ Len(s) >= 2 /\ s[1] \in {"-", "+"} /\ IsDigits(Tail(s))

IntOfText(s) ==
    IF s[1] = "-" THEN 0 - NatOf(Tail(s))
    ELSE IF s[1] = "+" THEN NatOf(Tail(s))
    ELSE NatOf(s)

\* position of the decimal point of a literal digits "." digits, or 0
PointOf(s) ==
    IF \E i \in 1..Len(s) : s[i] = "."
    THEN CHOOSE i \in 1..Len(s) : s[i] = "." /\ \A j \in 1..(i - 1) : s[j] # "."
    ELSE 0

IsFloatText(s) ==
    /\ PointOf(s) > 1
    /\ PointOf(s) < Len(s)
    /\ IsIntText(SubSeq(s, 1, PointOf(s) - 1))
    /\ IsDigits(SubSeq(s, PointOf(s) + 1, Len(s)))

\* IntVar.get(): getint of the text, else int(getdouble(text)) (truncation),
\* else the TclError escapes
IntVar_get(text) ==
    IF IsIntText(text) THEN [type |-> "int", value |-> IntOfText(text)]
    ELSE IF IsFloatText(text)
    THEN [type |-> "int", value |-> IntOfText(SubSeq(text, 1, PointOf(text) - 1))]
    ELSE Raised("TclError")

-----------------------------------------------------------------------------
(* The option frames *)

\* CSVOptionsFrame.separator_options
separator_options ==
    [k \in {",", ";", "Space", "Tab"} |->
        CASE k = "," -> "," [] k = ";" -> ";" [] k = "Space" -> " " [] k = "Tab" -> "\t"]

\* CSVOptionsFrame.__init__; id names the widget
CSVOptionsFrame(id) ==
    [type |-> "CSVOptionsFrame", id |-> id, packed |-> FALSE, refresh_btn |-> FALSE,
     separator_var |-> ",", missing_values_var |-> "Default"]

\* ExcelOptionsFrame.__init__: sheet_names[0] raises IndexError on an empty list
ExcelOptionsFrame(id, sheet_names) ==
    IF Len(sheet_names) = 0 THEN Raised("IndexError")
    ELSE [type |-> "ExcelOptionsFrame", id |-> id, packed |-> FALSE, refresh_btn |-> FALSE,
          sheet_names |-> sheet_names, sheet_var |-> sheet_names[1],
          skiprows_var |-> <<"0">>, missing_values_var |-> "Default"]

\* SPSSOptionsFrame.__init__
SPSSOptionsFrame(id) ==
    [type |-> "SPSSOptionsFrame", id |-> id, packed |-> FALSE, refresh_btn |-> FALSE]

HasAttr(obj, name) == name \in DOMAIN obj

\* CSVOptionsFrame.get_separator: a KeyError for a text that is no key
get_separator(frame) ==
    IF ~HasAttr(frame, "separator_var") THEN Raised("AttributeError")
    ELSE IF frame.separator_var \notin DOMAIN separator_options THEN Raised("KeyError")
    ELSE Str(separator_options[frame.separator_var])

\* CSVOptionsFrame.get_na_value / ExcelOptionsFrame.get_na_value
get_na_value(frame) ==
    IF ~HasAttr(frame, "missing_values_var") THEN Raised("AttributeError")
    ELSE IF frame.missing_values_var = "Default" THEN PyNone
    ELSE Str(frame.missing_values_var)

\* ExcelOptionsFrame.get_sheet_name
get_sheet_name(frame) ==
    IF ~HasAttr(frame, "sheet_var") THEN Raised("AttributeError")
    ELSE Str(frame.sheet_var)

\* ExcelOptionsFrame.get_skiprows
get_skiprows(frame) ==
    IF ~HasAttr(frame, "skiprows_var") THEN Raised("AttributeError")
    ELSE IntVar_get(frame.skiprows_var)

-----------------------------------------------------------------------------
(* DataImportPopup *)

\* Tableview.build_table_data: the table is replaced wholesale
build_table_data(coldata, rowdata) == [coldata |-> coldata, rowdata |-> rowdata]

\* DataImportPopup.__init__ followed by deiconify (show): filepath is not
\* assigned by the constructor
DataImportPopup ==
    [type |-> "DataImportPopup",
     state |-> "open",
     filepath |-> Unset,
     data_frame |-> PyNone,
     show_preview |-> 1,
     import_options_frame |-> PyNone,
     preview_tableview |-> build_table_data(<< >>, << >>),
     import_btn |-> PyNone,
     nframes |-> 0]

\* what a callback leaves behind: the object, the external calls it made in
\* order, and the exception that escaped it (PyNone when it returned)
Returned(self, calls) == [self |-> self, calls |-> calls, exc |-> PyNone]
Escaped(self, calls, exc) == [self |-> self, calls |-> calls, exc |-> exc]

show_error(message) == [fn |-> "Messagebox.show_error", message |-> message]

\* variant: an Import button that already exists is kept as it is
show_parsed_keep_button(self, df) ==
    LET shown ==
            IF self.show_preview = 1
            THEN build_table_data(df.columns, df.values)
            ELSE build_table_data(<< >>, << >>)
        master ==
            IF self.import_options_frame = PyNone THEN 0
            ELSE self.import_options_frame.id
    IN  [self EXCEPT
            !.preview_tableview = shown,
            !.import_btn =
                IF @ = PyNone THEN [type |-> "Button", master |-> master, data |-> df]
                ELSE [@ EXCEPT !.master = master]]

\* variant: the Import button is bound to the table that is displayed
show_parsed_bind_shown(self, df) ==
    LET shown ==
            IF self.show_preview = 1
            THEN build_table_data(df.columns, df.values)
            ELSE build_table_data(<< >>, << >>)
        master ==
            IF self.import_options_frame = PyNone THEN 0
            ELSE self.import_options_frame.id
    IN  [self EXCEPT
            !.preview_tableview = shown,
            !.import_btn = [type |-> "Button", master |-> master,
                            data |-> DataFrame(shown.coldata, shown.rowdata)]]

\* variant: the rows are added to the rows the Tableview holds
show_parsed_append(self, df) ==
    LET shown ==
            IF self.show_preview = 1
            THEN build_table_data(df.columns, self.preview_tableview.rowdata \o df.values)
            ELSE build_table_data(<< >>, << >>)
        master ==
            IF self.import_options_frame = PyNone THEN 0
            ELSE self.import_options_frame.id
    IN  [self EXCEPT
            !.preview_tableview = shown,
            !.import_btn = [type |-> "Button", master |-> master, data |-> df]]

\* __import_preview_data, the update of the Tableview and the new Import
\* button, packed into the current options frame and bound to this df
show_parsed(self, df) ==
    LET shown ==
            IF self.show_preview = 1
            THEN build_table_data(df.columns, df.values)
            ELSE build_table_data(<< >>, << >>)
        master ==
            IF self.import_options_frame = PyNone THEN 0
            ELSE self.import_options_frame.id
    IN  [self EXCEPT
            !.preview_tableview = shown,
            !.import_btn = [type |-> "Button", master |-> master, data |-> df]]

\* variant: a failed parse goes on with an empty DataFrame
parse_failed_cleared(self, calls) ==
    Returned(show_parsed(self, DataFrame(<< >>, << >>)), calls)

\* "except Exception as e: return" around a parser call
parse_failed(self, calls) == Returned(self, calls)

\* variant: no inner "except", the outer one swallows the TclError
skiprows_rejected_silent(self) == Returned(self, << >>)

\* the inner "except" around get_skiprows: the error dialog, then return
skiprows_rejected(self) ==
    Returned(self, <<show_error("Skip rows must be a number.")>>)

\* __import_preview_data; outcome is what the parser returns or raises if
\* it is called
import_preview_data(self, outcome) ==
    LET frame == self.import_options_frame
    IN
    IF self.filepath = Unset THEN Escaped(self, << >>, Raised("AttributeError"))
    ELSE IF endswith(self.filepath.value, DotCsv) THEN
        LET sep == get_separator(frame)
            na == get_na_value(frame)
            call == [fn |-> "pd.read_csv", path |-> self.filepath.value,
                     sep |-> sep, na_values |-> na, result |-> outcome]
        IN  IF IsRaised(sep) \/ IsRaised(na) THEN parse_failed(self, << >>)
            ELSE IF IsRaised(outcome) THEN parse_failed(self, <<call>>)
            ELSE Returned(show_parsed(self, outcome), <<call>>)
    ELSE IF endswith(self.filepath.value, DotXlsx) THEN
        LET sheet == get_sheet_name(frame)
            skip == get_skiprows(frame)
            na == get_na_value(frame)
            call == [fn |-> "pd.read_excel", path |-> self.filepath.value,
                     sheet_name |-> sheet, skiprows |-> skip, na_values |-> na,
                     result |-> outcome]
        IN  IF IsRaised(skip) THEN skiprows_rejected(self)
            ELSE IF IsRaised(sheet) \/ IsRaised(na) THEN parse_failed(self, << >>)
            ELSE IF IsRaised(outcome) THEN parse_failed(self, <<call>>)
            ELSE Returned(show_parsed(self, outcome), <<call>>)
    ELSE IF endswith(self.filepath.value, DotSav) THEN
        LET call == [fn |-> "pd.read_spss", path |-> self.filepath.value,
                     result |-> outcome]
        IN  IF IsRaised(outcome) THEN parse_failed(self, <<call>>)
            ELSE Returned(show_parsed(self, outcome), <<call>>)
    ELSE Returned(self, << >>)

\* pack the new options frame (and its refresh button, where there is one)
packed_frame(frame, with_refresh) ==
    [frame EXCEPT !.packed = TRUE, !.refresh_btn = with_refresh]

\* __select_file from the assignment of self.filepath up to, not including,
\* the call of __import_preview_data: refresh tells whether that call is
\* reached.  sheets is what pd.ExcelFile(...).sheet_names yields
choose_file(self, current_filepath, sheets) ==
    LET s1 == [self EXCEPT !.filepath = Str(current_filepath)]
        s2 == IF s1.import_options_frame # PyNone
              THEN [s1 EXCEPT !.import_options_frame.packed = FALSE]
              ELSE s1
        id == self.nframes + 1
        open == [fn |-> "pd.ExcelFile", path |-> current_filepath, result |-> sheets]
        reached(s3, calls) ==
            [self |-> s3, calls |-> calls, exc |-> PyNone, refresh |-> TRUE]
        left(s3, calls, exc) ==
            [self |-> s3, calls |-> calls, exc |-> exc, refresh |-> FALSE]
    IN
    IF endswith(current_filepath, DotCsv) THEN
        reached([s2 EXCEPT
                    !.import_options_frame = packed_frame(CSVOptionsFrame(id), TRUE),
                    !.nframes = id],
                << >>)
    ELSE IF endswith(current_filepath, DotXlsx) THEN
        IF IsRaised(sheets) THEN left(s2, <<open>>, sheets)
        ELSE IF IsRaised(ExcelOptionsFrame(id, sheets.items))
        THEN left([s2 EXCEPT !.nframes = id], <<open>>,
                  ExcelOptionsFrame(id, sheets.items))
        ELSE reached([s2 EXCEPT
                        !.import_options_frame =
                            packed_frame(ExcelOptionsFrame(id, sheets.items), TRUE),
                        !.nframes = id],
                     <<open>>)
    ELSE IF endswith(current_filepath, DotSav) THEN
        reached([s2 EXCEPT
                    !.import_options_frame = packed_frame(SPSSOptionsFrame(id), FALSE),
                    !.nframes = id],
                << >>)
    ELSE left(s2,
              <<show_error("Selected file must be one of the following file types: csv, xlsx, .sav.")>>,
              PyNone)

\* variant: no test for an empty selection
select_file_no_empty_check(self, current_filepath, sheets, outcome) ==
    LET ask == [fn |-> "filedialog.askopenfilename", result |-> current_filepath]
        c == choose_file(self, current_filepath, sheets)
        r == import_preview_data(c.self, outcome)
    IN
    IF c.refresh THEN Escaped(r.self, <<ask>> \o c.calls \o r.calls, r.exc)
    ELSE Escaped(c.self, <<ask>> \o c.calls, c.exc)

\* __select_file; current_filepath is what the picker returns, outcome what
\* the parser yields
select_file(self, current_filepath, sheets, outcome) ==
    LET ask == [fn |-> "filedialog.askopenfilename", result |-> current_filepath]
        c == choose_file(self, current_filepath, sheets)
        r == import_preview_data(c.self, outcome)
    IN
    IF current_filepath = EmptyStr THEN Returned(self, <<ask>>)
    ELSE IF c.refresh THEN Escaped(r.self, <<ask>> \o c.calls \o r.calls, r.exc)
    ELSE Escaped(c.self, <<ask>> \o c.calls, c.exc)

\* __return_data
return_data(self, data_frame) ==
    [self EXCEPT !.data_frame = data_frame, !.state = "destroyed"]

\* the characters the class [ \w-] accepts
WordChars ==
    {"a", "b", "c", "d", "e", "f", "g", "h", "i", "j", "k", "l", "m", "n", "o", "p",
     "q", "r", "s", "t", "u", "v", "w", "x", "y", "z",
     "A", "B", "C", "D", "E", "F", "G", "H", "I", "J", "K", "L", "M", "N", "O", "P",
     "Q", "R", "S", "T", "U", "V", "W", "X", "Y", "Z", "_"} \cup Digits
NameChars == WordChars \cup {" ", "-"}

\* a match of [ \w-]+?(?=\.) starting at i ends before j
MatchesAt(s, i, j) ==
    /\ i < j
    /\ j <= Len(s)
    /\ s[j] = "."
    /\ \A k \in i..(j - 1) : s[k] \in NameChars

\* re.search("[ \w-]+?(?=\.)", s).group(0): the leftmost match; an
\* AttributeError when there is none (search returned None)
re_search_group0(s) ==
    LET starts == {i \in 1..Len(s) : \E j \in 1..Len(s) : MatchesAt(s, i, j)}
    IN  IF starts = {} THEN Raised("AttributeError")
        ELSE LET i == CHOOSE a \in starts : \A b \in starts : a <= b
                 j == CHOOSE e \in 1..Len(s) : MatchesAt(s, i, e)
             IN  Str(SubSeq(s, i, j - 1))

\* variant: no try around the search, its exception leaves show
show_no_try(self) ==
    LET found == IF self.filepath = Unset THEN Raised("AttributeError")
                 ELSE re_search_group0(self.filepath.value)
    IN  IF IsRaised(found) THEN found
        ELSE [type |-> "dict", data_frame |-> self.data_frame, data_name |-> found]

\* show(), after wait_window returns
show(self) ==
    LET found == IF self.filepath = Unset THEN Raised("AttributeError")
                 ELSE re_search_group0(self.filepath.value)
        filename == IF IsRaised(found) THEN PyNone ELSE found
    IN  [type |-> "dict", data_frame |-> self.data_frame, data_name |-> filename]

\* import_data
import_data(self) == show(self)

-----------------------------------------------------------------------------
(* DataImportApp *)

\* open_import_window, after import_data returned data_frame: the new
\* display and the exception that escapes
open_import_window(tv, data_frame) ==
    IF data_frame # PyNone
    THEN IF HasAttr(data_frame, "columns") /\ HasAttr(data_frame, "values")
         THEN [tableview |-> build_table_data(data_frame.columns, data_frame.values),
               exc |-> PyNone]
         ELSE [tableview |-> tv, exc |-> Raised("AttributeError")]
    ELSE [tableview |-> tv, exc |-> PyNone]

-----------------------------------------------------------------------------
(* The state machine *)

NoCalls == [calls |-> << >>, exc |-> PyNone]

NoHist == [mark |-> PyNone, remembered |-> PyNone, again |-> FALSE]

Init ==
    /\ popup = PyNone
    /\ pc = "mainloop"
    /\ tableview = build_table_data(<< >>, << >>)
    /\ ret = Unset
    /\ host_exc = PyNone
    /\ event = "none"
    /\ io = NoCalls
    /\ parsed = PyNone
    /\ popup2 = PyNone
    /\ ret2 = Unset
    /\ widget = 0
    /\ hist = NoHist

\* the popup window exists and open_import_window waits for it
Open == pc = "wait_window" /\ popup.state = "open"

\* the options frame is on screen
FrameShown(self) ==
    self.import_options_frame # PyNone /\ self.import_options_frame.packed

\* the Refresh Preview button is on screen
RefreshShown(self) == FrameShown(self) /\ self.import_options_frame.refresh_btn

\* variant: the Import button is packed into left_frame, which is always shown
ImportShown_left_frame(self) == self.import_btn # PyNone

\* the Import button is on screen: it is packed into a frame that is shown
ImportShown(self) ==
    /\ self.import_btn # PyNone
    /\ FrameShown(self)
    /\ self.import_btn.master = self.import_options_frame.id

HostUnchanged == UNCHANGED <<pc, tableview, ret, host_exc>>
UserEvent(name) ==
    /\ event' = name
    /\ io' = NoCalls
    /\ UNCHANGED <<pc, tableview, ret, host_exc, parsed>>

ParserFns == {"pd.read_csv", "pd.read_excel", "pd.read_spss"}

\* the calls of a parser among the calls of a callback
ParserCalls(calls) == SelectSeq(calls, LAMBDA c : c.fn \in ParserFns)

\* the table the parser returned in these calls, else the one before
LastParsed(calls, before) ==
    LET pcalls == ParserCalls(calls)
    IN  IF pcalls # << >> /\ ~IsRaised(pcalls[Len(pcalls)].result)
        THEN pcalls[Len(pcalls)].result
        ELSE before

\* "Load Data": open_import_window up to wait_window (import_data builds
\* the popup and show() blocks)
LoadDataStep ==
    /\ pc = "mainloop"
    /\ popup' = DataImportPopup
    /\ pc' = "wait_window"
    /\ ret' = Unset
    /\ host_exc' = PyNone
    /\ event' = "open_import_window"
    /\ io' = NoCalls
    /\ parsed' = PyNone
    /\ UNCHANGED tableview

\* "Select File"
SelectFileStep(paths) ==
    /\ Open
    /\ \E current_filepath \in paths :
       \E sheets \in SheetNameOutcomes(current_filepath),
          outcome \in ParseOutcomes(current_filepath) :
          LET r == select_file(popup, current_filepath, sheets, outcome)
          IN  /\ r.self.nframes <= MaxFrames
              /\ popup' = r.self
              /\ io' = [calls |-> r.calls, exc |-> r.exc]
              /\ parsed' = LastParsed(r.calls, parsed)
    /\ event' = "select_file"
    /\ HostUnchanged

\* "Refresh Preview"
RefreshPreviewStep ==
    /\ Open
    /\ RefreshShown(popup)
    /\ \E outcome \in ParseOutcomes(popup.filepath.value) :
          LET r == import_preview_data(popup, outcome)
          IN  /\ popup' = r.self
              /\ io' = [calls |-> r.calls, exc |-> r.exc]
              /\ parsed' = LastParsed(r.calls, parsed)
    /\ event' = "import_preview_data"
    /\ HostUnchanged

\* the "Show data preview" checkbutton
TogglePreviewStep ==
    /\ Open
    /\ popup' = [popup EXCEPT !.show_preview = 1 - @]
    /\ UserEvent("show_preview")

\* the separator combobox of the CSV options
EditSeparatorStep ==
    /\ Open
    /\ FrameShown(popup)
    /\ HasAttr(popup.import_options_frame, "separator_var")
    /\ \E text \in SeparatorTexts \ {popup.import_options_frame.separator_var} :
          popup' = [popup EXCEPT !.import_options_frame.separator_var = text]
    /\ UserEvent("separator_var")

\* the missing-values entry of the CSV and Excel options
EditMissingValuesStep ==
    /\ Open
    /\ FrameShown(popup)
    /\ HasAttr(popup.import_options_frame, "missing_values_var")
    /\ \E text \in MissingValueTexts \ {popup.import_options_frame.missing_values_var} :
          popup' = [popup EXCEPT !.import_options_frame.missing_values_var = text]
    /\ UserEvent("missing_values_var")

\* the sheet combobox of the Excel options
EditSheetStep ==
    /\ Open
    /\ FrameShown(popup)
    /\ HasAttr(popup.import_options_frame, "sheet_var")
    /\ \E i \in 1..Len(popup.import_options_frame.sheet_names) :
          /\ popup.import_options_frame.sheet_names[i] # popup.import_options_frame.sheet_var
          /\ popup' = [popup EXCEPT !.import_options_frame.sheet_var =
                                        popup.import_options_frame.sheet_names[i]]
    /\ UserEvent("sheet_var")

\* the skip-rows entry of the Excel options
EditSkipRowsStep ==
    /\ Open
    /\ FrameShown(popup)
    /\ HasAttr(popup.import_options_frame, "skiprows_var")
    /\ \E text \in SkipRowsTexts \ {popup.import_options_frame.skiprows_var} :
          popup' = [popup EXCEPT !.import_options_frame.skiprows_var = text]
    /\ UserEvent("skiprows_var")

\* "Import"
CommitStep ==
    /\ Open
    /\ ImportShown(popup)
    /\ popup' = return_data(popup, popup.import_btn.data)
    /\ UserEvent("return_data")

\* WM_DELETE_WINDOW
CancelStep ==
    /\ Open
    /\ popup' = [popup EXCEPT !.state = "destroyed"]
    /\ UserEvent("destroy")

\* wait_window returns: the rest of show, import_data and open_import_window
WaitWindowReturnsStep ==
    /\ pc = "wait_window"
    /\ popup.state = "destroyed"
    /\ LET data_frame == import_data(popup)
           r == open_import_window(tableview, data_frame)
       IN  /\ ret' = data_frame
           /\ tableview' = r.tableview
           /\ host_exc' = r.exc
    /\ pc' = "mainloop"
    /\ event' = "wait_window"
    /\ io' = NoCalls
    /\ UNCHANGED <<popup, parsed>>

(* The actions of the specification of one import flow: each is the step of
   its handler; the second flow and the history stay as they are. *)

LoadData == LoadDataStep /\ UNCHANGED others
SelectFile == SelectFileStep(PickerResults) /\ UNCHANGED others
RefreshPreview == RefreshPreviewStep /\ UNCHANGED others
TogglePreview == TogglePreviewStep /\ UNCHANGED others
EditSeparator == EditSeparatorStep /\ UNCHANGED others
EditMissingValues == EditMissingValuesStep /\ UNCHANGED others
EditSheet == EditSheetStep /\ UNCHANGED others
EditSkipRows == EditSkipRowsStep /\ UNCHANGED others
Commit == CommitStep /\ UNCHANGED others
Cancel == CancelStep /\ UNCHANGED others
WaitWindowReturns == WaitWindowReturnsStep /\ UNCHANGED others

Next ==
    \/ LoadData
    \/ SelectFile
    \/ RefreshPreview
    \/ TogglePreview
    \/ EditSeparator
    \/ EditMissingValues
    \/ EditSheet
    \/ EditSkipRows
    \/ Commit
    \/ Cancel
    \/ WaitWindowReturns

Spec == Init /\ [][Next]_vars

-----------------------------------------------------------------------------
(* One flow with the history of its preview.  The files are two, one with   *)
(* a Refresh Preview button (CSV) and one without (SPSS).                   *)

HistPaths == {SalesCsv, SurveySav}

\* the history after a callback that may have re-parsed (popup', io' are
\* the state it left).  The mark stands while the parser returns the table
\* it returned before the switch-off; a successful call is remembered at
\* most once, at any call.
HistAfterParse(reset_mark) ==
    LET pcalls == ParserCalls(io'.calls)
        made == pcalls # << >>
        info == [call |-> pcalls[1],
                 show_preview |-> popup'.show_preview,
                 displayed |-> popup'.preview_tableview]
        mark ==
            IF reset_mark THEN PyNone
            ELSE IF hist.mark # PyNone /\ made /\ pcalls[1].result # hist.mark.parsed
            THEN PyNone
            ELSE hist.mark
        again ==
            \/ hist.again
            \/ /\ hist.remembered # PyNone
               /\ made
               /\ info.call = hist.remembered.call
               /\ info.show_preview = hist.remembered.show_preview
    IN  \E remembered \in
            {hist.remembered} \cup
            (IF hist.remembered = PyNone /\ made /\ ~IsRaised(pcalls[1].result)
             THEN {info} ELSE {}) :
            hist' = [mark |-> mark, remembered |-> remembered, again |-> again]

H_LoadData ==
    /\ LoadDataStep
    /\ hist' = NoHist
    /\ UNCHANGED <<popup2, ret2, widget>>

H_SelectFile ==
    /\ SelectFileStep(HistPaths)
    /\ HistAfterParse(TRUE)
    /\ UNCHANGED <<popup2, ret2, widget>>

H_RefreshPreview ==
    /\ RefreshPreviewStep
    /\ HistAfterParse(FALSE)
    /\ UNCHANGED <<popup2, ret2, widget>>

\* a switch-off marks the preview that is displayed, if there is one
H_TogglePreview ==
    /\ TogglePreviewStep
    /\ hist' = [hist EXCEPT !.mark =
                    IF popup.show_preview = 0 THEN @
                    ELSE IF popup.preview_tableview # build_table_data(<< >>, << >>)
                    THEN [preview |-> popup.preview_tableview, parsed |-> parsed]
                    ELSE PyNone]
    /\ UNCHANGED <<popup2, ret2, widget>>

\* a change of the options ends the mark
H_EditSeparator ==
    /\ EditSeparatorStep
    /\ hist' = [hist EXCEPT !.mark = PyNone]
    /\ UNCHANGED <<popup2, ret2, widget>>

NextHist ==
    \/ H_LoadData
    \/ H_SelectFile
    \/ H_RefreshPreview
    \/ H_TogglePreview
    \/ H_EditSeparator

SpecHist == Init /\ [][NextHist]_vars

-----------------------------------------------------------------------------
(* Two flows: "Load Data" is pressed again while the first popup is open.   *)
(* open_import_window runs a second time inside the event loop of the      *)
(* first wait_window, so the second flow returns before the first.         *)

TwoPaths == {OtherCsv, PlusCsv}

\* variant: the callbacks run on the popup that was created last
bound_self_latest(w) == IF popup2 # PyNone THEN 2 ELSE w

\* command=self.__select_file and the like are bound methods: the callback
\* of a widget of popup w runs on popup w
bound_self(w) == w

Flow(w) == IF w = 1 THEN popup ELSE popup2

\* popup w is open and the event loop that runs serves it
FlowOpen(w) ==
    IF w = 1
    THEN pc \in {"wait_window", "wait_window2"} /\ popup.state = "open"
    ELSE pc = "wait_window2" /\ popup2.state = "open"

\* the callback stored its self
SetFlow(w, self) ==
    IF w = 1
    THEN popup' = self /\ popup2' = popup2
    ELSE popup2' = self /\ popup' = popup

\* a callback of a widget of popup w
FlowEvent(w, name, r) ==
    /\ SetFlow(bound_self(w), r.self)
    /\ widget' = w
    /\ event' = name
    /\ io' = [calls |-> r.calls, exc |-> r.exc]
    /\ parsed' = IF bound_self(w) = 1 THEN LastParsed(r.calls, parsed) ELSE parsed
    /\ UNCHANGED <<pc, tableview, ret, ret2, host_exc, hist>>

T_LoadData ==
    /\ LoadDataStep
    /\ widget' = 0
    /\ UNCHANGED <<popup2, ret2, hist>>

\* "Load Data" while the first popup is open
T_LoadDataAgain ==
    /\ pc = "wait_window"
    /\ popup2' = DataImportPopup
    /\ pc' = "wait_window2"
    /\ ret2' = Unset
    /\ host_exc' = PyNone
    /\ event' = "open_import_window"
    /\ io' = NoCalls
    /\ widget' = 0
    /\ UNCHANGED <<popup, ret, tableview, parsed, hist>>

T_SelectFile(w) ==
    /\ FlowOpen(w)
    /\ \E current_filepath \in TwoPaths :
       \E sheets \in SheetNameOutcomes(current_filepath),
          outcome \in ParseOutcomes(current_filepath) :
          LET r == select_file(Flow(bound_self(w)), current_filepath, sheets, outcome)
          IN  /\ r.self.nframes <= MaxFrames
              /\ FlowEvent(w, "select_file", r)

T_RefreshPreview(w) ==
    /\ FlowOpen(w)
    /\ RefreshShown(Flow(w))
    /\ \E outcome \in ParseOutcomes(Flow(bound_self(w)).filepath.value) :
          FlowEvent(w, "import_preview_data",
                    import_preview_data(Flow(bound_self(w)), outcome))

T_TogglePreview(w) ==
    /\ FlowOpen(w)
    /\ FlowEvent(w, "show_preview",
                 Returned([Flow(w) EXCEPT !.show_preview = 1 - @], << >>))

T_Commit(w) ==
    /\ FlowOpen(w)
    /\ ImportShown(Flow(w))
    /\ FlowEvent(w, "return_data",
                 Returned(return_data(Flow(bound_self(w)), Flow(w).import_btn.data),
                          << >>))

T_Cancel(w) ==
    /\ FlowOpen(w)
    /\ FlowEvent(w, "destroy",
                 Returned([Flow(bound_self(w)) EXCEPT !.state = "destroyed"], << >>))

\* the inner wait_window returns: the second open_import_window finishes
T_WaitWindowReturnsAgain ==
    /\ pc = "wait_window2"
    /\ popup2.state = "destroyed"
    /\ LET data_frame == import_data(popup2)
           r == open_import_window(tableview, data_frame)
       IN  /\ ret2' = data_frame
           /\ tableview' = r.tableview
           /\ host_exc' = r.exc
    /\ pc' = "wait_window"
    /\ event' = "wait_window"
    /\ io' = NoCalls
    /\ widget' = 2
    /\ UNCHANGED <<popup, popup2, ret, parsed, hist>>

T_WaitWindowReturns ==
    /\ WaitWindowReturnsStep
    /\ widget' = 1
    /\ UNCHANGED <<popup2, ret2, hist>>

NextTwo ==
    \/ T_LoadData
    \/ T_LoadDataAgain
    \/ \E w \in {1, 2} : T_SelectFile(w)
    \/ \E w \in {1, 2} : T_RefreshPreview(w)
    \/ \E w \in {1, 2} : T_TogglePreview(w)
    \/ \E w \in {1, 2} : T_Commit(w)
    \/ \E w \in {1, 2} : T_Cancel(w)
    \/ T_WaitWindowReturnsAgain
    \/ T_WaitWindowReturns

SpecTwo == Init /\ [][NextTwo]_vars

-----------------------------------------------------------------------------
(* Properties *)

\* the path the picker returned in the select_file callback that just ran
Picked == io.calls[1].result

Recognized(path) ==
    endswith(path, DotCsv) \/ endswith(path, DotXlsx) \/ endswith(path, DotSav)

\* the flow ended with the Import button
Committed ==
    /\ popup.type = "DataImportPopup"
    /\ popup.state = "destroyed"
    /\ popup.data_frame # PyNone

\* the flow has ended and open_import_window has run to its end
FlowReturned == pc = "mainloop" /\ ret # Unset

\* the table in what import_data returned
ReturnedTable == IF ret.type = "dict" THEN ret.data_frame ELSE ret

EmptyTable == build_table_data(<< >>, << >>)

ShownErrors(calls) == SelectSeq(calls, LAMBDA c : c.fn = "Messagebox.show_error")

ParserFailed(calls) ==
    ParserCalls(calls) # << >> /\ IsRaised(ParserCalls(calls)[1].result)

ParserSucceeded(calls) ==
    ParserCalls(calls) # << >> /\ ~IsRaised(ParserCalls(calls)[1].result)

\* what pd.ExcelFile(...).sheet_names yielded in these calls
SheetsOf(calls) ==
    LET opened == SelectSeq(calls, LAMBDA c : c.fn = "pd.ExcelFile")
    IN  IF opened = << >> THEN List(<< >>) ELSE opened[1].result

\* C1: when a flow ends with a commit, the table handed to the caller is the
\* table of the most recent successful parse of that flow.
C1_CommitReturnsLastParsed ==
    Committed =>
        /\ popup.data_frame = parsed
        /\ FlowReturned => ReturnedTable = parsed

\* a commit after a second file was selected and parsed
C1_Witness ==
    /\ Committed
    /\ FlowReturned
    /\ popup.nframes >= 2
    /\ ReturnedTable = DataFrame(<<"a;b">>, << <<12>> >>)

\* C2 (as claimed): a picked path with an unsupported extension reports the
\* error and leaves the stored path, the options, what is shown of them
\* and the preview as they were.
C2_UnsupportedLeavesState ==
    [][(event' = "select_file" /\ Picked' # EmptyStr /\ ~Recognized(Picked'))
        => /\ Len(ShownErrors(io'.calls)) = 1
           /\ popup'.filepath = popup.filepath
           /\ popup'.import_options_frame = popup.import_options_frame
           /\ RefreshShown(popup') = RefreshShown(popup)
           /\ ImportShown(popup') = ImportShown(popup)
           /\ popup'.preview_tableview = popup.preview_tableview]_vars

\* C3 (as claimed): a flow closed without a commit gives the caller of
\* import_data None; only a commit gives something else.
C3_CancelReturnsNone ==
    (FlowReturned /\ ~Committed) => ret = PyNone

\* C4 (as claimed): when the flow has ended, open_import_window raises
\* nothing, shows the committed table after a commit and leaves the display
\* alone after a cancel.
C4_HostDisplay ==
    [][(pc = "wait_window" /\ event' = "wait_window")
        => /\ host_exc' = PyNone
           /\ IF Committed
              THEN tableview' = build_table_data(popup.data_frame.columns,
                                                 popup.data_frame.values)
              ELSE tableview' = tableview]_vars

\* C5: a cancelled picker changes nothing: path, options, preview and the
\* Import button stay, no parser runs, no error is reported.
C5_PickerCancelChangesNothing ==
    [][(event' = "select_file" /\ Picked' = EmptyStr)
        => /\ popup' = popup
           /\ Len(io'.calls) = 1
           /\ io'.exc = PyNone
           /\ UNCHANGED <<pc, tableview, ret, host_exc, parsed>>]_vars

\* the picker was cancelled while edited options and the Import button
\* were on screen
C5_Witness ==
    /\ event = "select_file"
    /\ Picked = EmptyStr
    /\ ImportShown(popup)
    /\ HasAttr(popup.import_options_frame, "separator_var")
    /\ popup.import_options_frame.separator_var = ";"

\* the options are the defaults of the kind of path, as the constructors
\* set them; sheets is what the workbook's sheet names were read as
IsFreshDefault(frame, path, sheets) ==
    IF endswith(path, DotCsv) THEN
        /\ frame.type = "CSVOptionsFrame"
        /\ frame.separator_var = ","
        /\ frame.missing_values_var = "Default"
    ELSE IF endswith(path, DotXlsx) THEN
        /\ frame.type = "ExcelOptionsFrame"
        /\ ~IsRaised(sheets)
        /\ frame.sheet_var = sheets.items[1]
        /\ frame.skiprows_var = <<"0">>
        /\ frame.missing_values_var = "Default"
    ELSE frame.type = "SPSSOptionsFrame"

\* C6 (as claimed): after a file with a recognised extension is picked, the
\* options on screen are fresh defaults of that file's kind.
C6_FreshDefaults ==
    [][(event' = "select_file" /\ Recognized(Picked'))
        => /\ FrameShown(popup')
           /\ IsFreshDefault(popup'.import_options_frame, Picked',
                             SheetsOf(io'.calls))]_vars

\* C7 (as claimed): when a recognised file is picked after another one
\* and its parser runs, the preview afterwards is the new file's table or
\* empty, also when that parse fails.
C7_PreviewReset ==
    [][(/\ event' = "select_file"
        /\ Recognized(Picked')
        /\ popup.import_options_frame # PyNone
        /\ popup.filepath.value # Picked'
        /\ ParserCalls(io'.calls) # << >>)
        => \/ popup'.preview_tableview = EmptyTable
           \/ /\ ParserSucceeded(io'.calls)
              /\ popup'.preview_tableview =
                    build_table_data(parsed'.columns, parsed'.values)]_vars

\* a text with a character no number contains
NonNumeric(text) ==
    \E i \in 1..Len(text) : text[i] \notin (Digits \cup {"-", "+", "."})

\* C8: a refresh of an Excel import whose skip-rows text is not numeric
\* shows "Skip rows must be a number.", calls no parser and changes nothing.
C8_InvalidSkipRows ==
    [][(/\ event' = "import_preview_data"
        /\ popup.import_options_frame.type = "ExcelOptionsFrame"
        /\ NonNumeric(popup.import_options_frame.skiprows_var))
        => /\ io'.calls = <<show_error("Skip rows must be a number.")>>
           /\ io'.exc = PyNone
           /\ popup' = popup
           /\ parsed' = parsed]_vars

\* the error was shown while a preview and the Import button were on screen
C8_Witness ==
    /\ event = "import_preview_data"
    /\ io.calls = <<show_error("Skip rows must be a number.")>>
    /\ popup.import_options_frame.skiprows_var = <<"a", "b", "c">>
    /\ ImportShown(popup)
    /\ popup.preview_tableview # EmptyTable

\* C9: a refresh whose parser call fails shows no dialog, lets nothing
\* escape and leaves the preview, the Import button and its table as they
\* were when the refresh was called.
C9_ParseFailureSilent ==
    [][(event' \in {"import_preview_data", "select_file"} /\ ParserFailed(io'.calls))
        => /\ ShownErrors(io'.calls) = << >>
           /\ io'.exc = PyNone
           /\ popup'.preview_tableview = popup.preview_tableview
           /\ popup'.import_btn = popup.import_btn
           /\ popup'.data_frame = popup.data_frame
           /\ parsed' = parsed
           /\ event' = "import_preview_data" => popup' = popup
           /\ event' = "select_file" =>
                popup' = choose_file(popup, Picked', SheetsOf(io'.calls)).self]_vars

\* a parser failed while a preview and the Import button were on screen
C9_Witness ==
    /\ event = "import_preview_data"
    /\ ParserFailed(io.calls)
    /\ ImportShown(popup)
    /\ popup.preview_tableview # EmptyTable

\* C10: the Import button can be pressed only if a parse has succeeded
\* since the flow was opened.
C10_CommitNeedsParse ==
    ENABLED Commit => parsed # PyNone

\* the Import button can be pressed right after a refresh
C10_Witness ==
    /\ ENABLED Commit
    /\ event = "import_preview_data"
    /\ ParserSucceeded(io.calls)

\* index of the last c in s, 0 when there is none
LastIndexOf(s, c) ==
    LET at == {i \in 1..Len(s) : s[i] = c}
    IN  IF at = {} THEN 0 ELSE CHOOSE i \in at : \A j \in at : j <= i

\* the base name of a path without its extension
BaseNameNoExt(path) ==
    LET base == SubSeq(path, LastIndexOf(path, "/") + 1, Len(path))
        dot == LastIndexOf(base, ".")
    IN  IF dot <= 1 THEN base ELSE SubSeq(base, 1, dot - 1)

\* C11 (as claimed): after a commit the returned name is the base name of
\* the selected path without its extension.
C11_NameIsBaseName ==
    (Committed /\ FlowReturned) =>
        /\ ret.type = "dict"
        /\ ret.data_name = Str(BaseNameNoExt(popup.filepath.value))

\* the kind of options a path's extension asks for
KindOfPath(filepath) ==
    IF filepath = Unset THEN "none"
    ELSE IF endswith(filepath.value, DotCsv) THEN "CSVOptionsFrame"
    ELSE IF endswith(filepath.value, DotXlsx) THEN "ExcelOptionsFrame"
    ELSE IF endswith(filepath.value, DotSav) THEN "SPSSOptionsFrame"
    ELSE "none"

KindOfOptions(frame) == IF frame = PyNone THEN "none" ELSE frame.type

\* C14 (as claimed): the kind of the current options object is the kind the
\* extension of the stored path implies.
C14_OptionsMatchPath ==
    popup.type = "DataImportPopup" =>
        KindOfOptions(popup.import_options_frame) = KindOfPath(popup.filepath)

\* a call of the parsing library failed in these calls
LibraryFailed(calls) ==
    \E i \in 1..Len(calls) :
        calls[i].fn \in ParserFns \cup {"pd.ExcelFile"} /\ IsRaised(calls[i].result)

\* C15 (as claimed): no failure of a call of the parsing library escapes
\* the callback that made it.
C15_NoParserFailureEscapes ==
    LibraryFailed(io.calls) => io.exc = PyNone

\* C16 (as claimed): every skiprows handed to pd.read_excel is a
\* non-negative integer.
C16_SkipRowsNonNegative ==
    \A i \in 1..Len(io.calls) :
        io.calls[i].fn = "pd.read_excel" => io.calls[i].skiprows.value >= 0

\* C17: a successful parse displays the whole table when "show preview" is
\* set and an empty table when it is not, and binds the Import button to
\* the whole table either way; the Import button hands over that table.
C17_PreviewFollowsSetting ==
    [][/\ (event' \in {"import_preview_data", "select_file"}
           /\ ParserSucceeded(io'.calls))
          => /\ popup'.preview_tableview =
                    IF popup.show_preview = 1
                    THEN build_table_data(parsed'.columns, parsed'.values)
                    ELSE EmptyTable
             /\ ImportShown(popup')
             /\ popup'.import_btn.data = parsed'
             /\ parsed' = ParserCalls(io'.calls)[1].result
       /\ event' = "return_data" => popup'.data_frame = parsed]_vars

\* a commit made while the preview was disabled and empty
C17_Witness ==
    /\ Committed
    /\ event = "return_data"
    /\ popup.show_preview = 0
    /\ popup.preview_tableview = EmptyTable
    /\ popup.data_frame = DataFrame(<<"x", "y">>, << <<3, 4>>, <<5, 6>> >>)

\* no "." of the path follows a character of [ \w-]
NoNameIn(filepath) ==
    \/ filepath = Unset
    \/ ~\E j \in 2..Len(filepath.value) :
            filepath.value[j] = "." /\ filepath.value[j - 1] \in NameChars

\* C19: when no name can be taken from the stored path, or no path was
\* ever stored, show still returns its dict, with the name None and the
\* table as the popup holds it.
C19_NameFailureDoesNotBlock ==
    (FlowReturned /\ NoNameIn(popup.filepath)) =>
        /\ ret.type = "dict"
        /\ ret.data_name = PyNone
        /\ ret.data_frame = popup.data_frame

\* a commit of a file from whose path no name can be taken
C19_Witness ==
    /\ FlowReturned
    /\ Committed
    /\ popup.filepath = Str(PlusCsv)
    /\ ret.data_name = PyNone
    /\ ret.data_frame = DataFrame(<<"p">>, << <<6>> >>)

\* n is a run of consecutive characters of s
IsPartOf(n, s) ==
    \E i \in 1..Len(s) : i + Len(n) - 1 <= Len(s) /\ SubSeq(s, i, i + Len(n) - 1) = n

\* C20: whenever the Import button can be pressed, its table was parsed
\* from the file whose path is stored; after a commit the returned table
\* is one of the file the returned name is taken from.
C20_CommitTableFromStoredPath ==
    /\ ENABLED Commit =>
            /\ popup.filepath # Unset
            /\ popup.import_btn.data \in ParsedTables(popup.filepath.value)
    /\ (Committed /\ FlowReturned) =>
            /\ ReturnedTable \in ParsedTables(popup.filepath.value)
            /\ \/ ret.data_name = PyNone
               \/ IsPartOf(ret.data_name.value, popup.filepath.value)

\* the Import button can be pressed after a second file was selected
C20_Witness ==
    /\ ENABLED Commit
    /\ popup.nframes = 2
    /\ popup.filepath = Str(SurveySav)
    /\ popup.import_btn.data \in ParsedTables(SurveySav)

\* C12: a preview is displayed, "show preview" is switched off and on again
\* and neither the file nor the options change (the parser returning the
\* same table if it is called): the preview displayed before the switch-off
\* is displayed again, whether or not the preview was refreshed meanwhile.
C12_ToggleRestoresPreview ==
    (popup # PyNone /\ hist.mark # PyNone /\ popup.show_preview = 1) =>
        popup.preview_tableview = hist.mark.preview

\* this step is a refresh that repeats the remembered call: same file, same
\* options, same table from the parser
RepeatsRemembered ==
    /\ hist.remembered # PyNone
    /\ ParserCalls(io'.calls) # << >>
    /\ ParserCalls(io'.calls)[1] = hist.remembered.call

\* C13 as stated: two refreshes with the same file and the same options (the
\* parser returning the same table) display the same preview, whatever
\* happened between them.
C13_RefreshIdempotent ==
    [][RepeatsRemembered => popup'.preview_tableview = hist.remembered.displayed]_vars

\* C13, amended: two refreshes with the same file, the same options and the
\* same setting of "show preview" (the parser returning the same table)
\* display the same preview, whatever happened between them.
C13_RefreshIdempotentSameSetting ==
    [][(RepeatsRemembered /\ popup'.show_preview = hist.remembered.show_preview)
        => popup'.preview_tableview = hist.remembered.displayed]_vars

\* C13, witness: the file of the remembered call was selected anew, which
\* repeated the call under the same setting, and the same preview shows
C13_Witness ==
    /\ hist.again
    /\ event = "select_file"
    /\ popup.nframes = 2
    /\ ParserCalls(io.calls) # << >>
    /\ ParserCalls(io.calls)[1] = hist.remembered.call
    /\ popup.show_preview = hist.remembered.show_preview
    /\ popup.preview_tableview = hist.remembered.displayed
    /\ popup.preview_tableview # EmptyTable

\* C18: while two flows are open, a callback of one popup (select file,
\* refresh, toggle, import, close) and the return of one flow leave the
\* other popup (path, options, preview, Import button) and the other flow's
\* result as they are.
C18_FlowsIndependent ==
    [][/\ (popup2 # PyNone /\ widget' = 1) => (popup2' = popup2 /\ ret2' = ret2)
       /\ (popup # PyNone /\ widget' = 2) => (popup' = popup /\ ret' = ret)]_vars

\* C18, witness: the first flow was committed while the second one is open
\* with another file, its own preview and its own Import button
C18_Witness ==
    /\ pc = "wait_window2"
    /\ widget = 1
    /\ event = "return_data"
    /\ popup.filepath = Str(OtherCsv)
    /\ popup.data_frame \in ParsedTables(OtherCsv)
    /\ popup2.state = "open"
    /\ popup2.filepath = Str(PlusCsv)
    /\ popup2.preview_tableview # EmptyTable
    /\ popup2.import_btn # PyNone
    /\ popup2.import_btn.data \in ParsedTables(PlusCsv)

====
